---------------------------- MODULE Spec2Model ----------------------------
(***************************************************************************)
(* A model of the scrape / normalize / summarize / persist pipeline of     *)
(* scrap-articles.                                                         *)
(*                                                                         *)
(* Text is modelled at character level: a Python str is a sequence of      *)
(* one-character strings, and the regular expressions of the source are    *)
(* operators that scan such sequences the way re.sub does (leftmost match, *)
(* greedy quantifiers, non-overlapping replacements).                      *)
(***************************************************************************)
EXTENDS Integers, Sequences, FiniteSets, TLC

VARIABLES
    pre_in,        \* preprocess_text: argument `text`
    pre_stop,      \* preprocess_text: argument `remove_stopwords`
    pre_out,       \* preprocess_text: returned value
    pre_done,      \* preprocess_text has returned
    po_fn,         \* which function of postprocessor.py is called
    po_text,       \* its argument `summary` / `text`
    po_max,        \* its argument `max_sentences` / `max_chars`
    po_out,        \* returned value
    po_done,       \* the function has returned
    th_pc,         \* per thread: where it is inside summarize_article
    th_read,       \* per thread: self.last_request_time as _apply_rate_limit read it
    th_clock,      \* per thread: current_time of _apply_rate_limit
    th_wake,       \* per thread: when its time.sleep returns
    th_issued,     \* per thread: when it invoked generate_content
    now,               \* time.time(), in ticks
    last_request_time, \* GeminiClient.last_request_time, in ticks
    gpc,               \* where the client is inside summarize_text/_article
    g_method,          \* which of the two methods is running
    g_title,           \* summarize_article: argument `title`
    g_content,         \* argument `text` / `content`
    g_author,          \* summarize_article: argument `author`
    g_wake,            \* _apply_rate_limit: when time.sleep returns
    g_outcome,         \* what model.generate_content did in this call
    g_error,           \* str(e) of the exception it raised, if it did
    g_ret,             \* the returned string
    g_count,           \* number of summarize calls made on the client
    calls,             \* the times at which generate_content was invoked
    sc_url,        \* scrape_articles: argument `url`
    sc_limit,      \* scrape_articles: argument `limit`
    sc_page,       \* what the GET of sc_url and the parse of its body give
    sc_result,     \* how the call of scrape_articles ended
    sc_done,       \* scrape_articles has been called
    bpc,                   \* where scrape_and_summarize is
    api_key,               \* whether GEMINI_API_KEY is set in the environment
    client_created,        \* whether the singleton _gemini_client exists
    b_idx,                 \* position of article_data in scraped_articles
    preprocessed_content,  \* local of the loop body
    summary,               \* local of the loop body
    final_summary,         \* local of the loop body
    db_rows,               \* the committed rows of table articles
    db_inactive,           \* the session's transaction awaits a rollback
    processed_article_ids, \* local of scrape_and_summarize
    b_faulted,             \* positions whose processing an exception interrupted
    b_skipped,             \* positions whose loop body ended in the except clause
    b_response             \* what scrape_and_summarize answered

preVars == <<pre_in, pre_stop, pre_out, pre_done>>

postVars == <<po_fn, po_text, po_max, po_out, po_done>>

threadVars == <<th_pc, th_read, th_clock, th_wake, th_issued>>

gatewayVars == <<last_request_time, gpc, g_method, g_title, g_content, g_author,
                 g_wake, g_outcome, g_error, g_ret, g_count, calls>>

scrapeVars == <<sc_url, sc_limit, sc_page, sc_result, sc_done>>

batchVars == <<bpc, api_key, client_created, b_idx, preprocessed_content, summary,
               final_summary, db_rows, db_inactive, processed_article_ids, b_faulted,
               b_skipped, b_response>>

vars == <<preVars, postVars, threadVars, now, gatewayVars, scrapeVars, batchVars>>

----------------------------------------------------------------------------
(* Python values *)

\* Python's None where a str is expected; no character sequence equals it.
None == <<"<None>">>

\* `not x` for an Optional[str]
Falsy(x) == x = None \/ x = <<>>

----------------------------------------------------------------------------
(* Character classes of the re module (ASCII part) *)

UpperSeq == <<"A","B","C","D","E","F","G","H","I","J","K","L","M",
              "N","O","P","Q","R","S","T","U","V","W","X","Y","Z">>
LowerSeq == <<"a","b","c","d","e","f","g","h","i","j","k","l","m",
              "n","o","p","q","r","s","t","u","v","w","x","y","z">>

UpperChars == {UpperSeq[i] : i \in DOMAIN UpperSeq}
LowerChars == {LowerSeq[i] : i \in DOMAIN LowerSeq}
Letters == UpperChars \cup LowerChars
Digits == {"0","1","2","3","4","5","6","7","8","9"}

\* \s
IsSpace(c) == c \in {" ", "\t", "\n", "\r", "\f"}

\* \w
IsWord(c) == c \in Letters \cup Digits \cup {"_"}

\* str.lower() on one character
LowerChar(c) ==
    IF c \in UpperChars
    THEN LowerSeq[CHOOSE i \in DOMAIN UpperSeq : UpperSeq[i] = c]
    ELSE c

\* str.lower()
Lower(s) == [i \in DOMAIN s |-> LowerChar(s[i])]

\* s[from:] (1-based `from`)
Drop(s, from) == SubSeq(s, from, Len(s))

\* s.startswith(p)
StartsWith(s, p) == Len(s) >= Len(p) /\ SubSeq(s, 1, Len(p)) = p

\* s.endswith(p)
EndsWith(s, p) == Len(s) >= Len(p) /\ SubSeq(s, Len(s) - Len(p) + 1, Len(s)) = p

\* p in s
Contains(s, p) == \E i \in 1..(Len(s) - Len(p) + 1) : SubSeq(s, i, i + Len(p) - 1) = p

\* index of the first position >= from whose character satisfies P, 0 if none
FirstFrom(s, from, P(_)) ==
    LET hits == {i \in from..Len(s) : P(s[i])}
    IN  IF hits = {} THEN 0 ELSE CHOOSE i \in hits : \A j \in hits : i <= j

\* length of the maximal run of characters satisfying P that starts at s[1]
RunLen(s, P(_)) ==
    LET stop == {i \in 1..Len(s) : ~P(s[i])}
    IN  IF stop = {} THEN Len(s) ELSE (CHOOSE i \in stop : \A j \in stop : i <= j) - 1

\* str.strip()
RECURSIVE LStrip(_)
LStrip(s) == IF s # <<>> /\ IsSpace(Head(s)) THEN LStrip(Tail(s)) ELSE s

RECURSIVE RStrip(_)
RStrip(s) ==
    IF s # <<>> /\ IsSpace(s[Len(s)]) THEN RStrip(SubSeq(s, 1, Len(s) - 1)) ELSE s

Strip(s) == RStrip(LStrip(s))

\* str.split() with no argument: the maximal runs of non-whitespace
RECURSIVE Split(_)
Split(s) ==
    LET t == LStrip(s)
        n == RunLen(t, LAMBDA c : ~IsSpace(c))
    IN  IF t = <<>> THEN <<>>
        ELSE <<SubSeq(t, 1, n)>> \o Split(Drop(t, n + 1))

\* ' '.join(words)
RECURSIVE JoinSpace(_)
JoinSpace(ws) ==
    IF ws = <<>> THEN <<>>
    ELSE IF Len(ws) = 1 THEN ws[1]
    ELSE ws[1] \o <<" ">> \o JoinSpace(Tail(ws))

----------------------------------------------------------------------------
(* app/processing/preprocessor.py *)

STOPWORDS == {
    <<"a">>, <<"a","n">>, <<"a","n","d">>, <<"a","r","e">>, <<"a","s">>, <<"a","t">>,
    <<"b","e">>, <<"b","e","e","n">>, <<"b","u","t">>, <<"b","y">>,
    <<"c","a","l","l">>, <<"c","o","m","e">>, <<"c","o","u","l","d">>, <<"d","a","y">>,
    <<"d","i","d">>, <<"d","o","w","n">>, <<"e","a","c","h">>, <<"f","i","n","d">>,
    <<"f","i","r","s","t">>, <<"f","o","r">>, <<"f","r","o","m">>, <<"g","e","t">>,
    <<"g","o">>, <<"h","a","d">>, <<"h","a","s">>, <<"h","a","v","e">>, <<"h","e">>,
    <<"h","e","r">>, <<"h","i","m">>, <<"i","f">>, <<"i","n">>, <<"i","n","t","o">>,
    <<"i","s">>, <<"i","t">>, <<"i","t","s">>, <<"l","i","k","e">>,
    <<"l","o","n","g">>, <<"m","a","d","e">>, <<"m","a","k","e">>, <<"m","a","n","y">>,
    <<"m","a","y">>, <<"m","o","r","e">>, <<"m","y">>, <<"n","o">>, <<"n","o","w">>,
    <<"o","f">>, <<"o","i","l">>, <<"o","n">>, <<"o","u","t">>, <<"p","a","r","t">>,
    <<"s","a","i","d">>, <<"s","o">>, <<"s","o","m","e">>, <<"t","h","a","n">>,
    <<"t","h","a","t">>, <<"t","h","e">>, <<"t","h","e","i","r">>, <<"t","h","e","m">>,
    <<"t","h","e","n">>, <<"t","h","e","s","e">>, <<"t","h","e","y">>,
    <<"t","h","i","s">>, <<"t","i","m","e">>, <<"t","o">>, <<"t","w","o">>,
    <<"u","p">>, <<"w","a","s">>, <<"w","a","y">>, <<"w","h","a","t">>,
    <<"w","h","i","c","h">>, <<"w","h","o">>, <<"w","i","l","l">>, <<"w","i","t","h">>,
    <<"w","o","u","l","d">> }

\* re.sub(r'<[^>]+>', '', text): at a '<', the match runs to the first '>'
\* after it and needs at least one character in between.
RECURSIVE clean_html(_)
clean_html(s) ==
    IF s = <<>> THEN <<>>
    ELSE LET close == FirstFrom(s, 2, LAMBDA c : c = ">")
         IN  IF Head(s) = "<" /\ close >= 3
             THEN clean_html(Drop(s, close + 1))
             ELSE <<Head(s)>> \o clean_html(Tail(s))

\* one alternative of the URL pattern's repeated group:
\* [a-zA-Z] | [0-9] | [$-_@.&+] | [!*\\(\\),] | %XX   ('$'..'_' is a range)
IsUrlChar(c) ==
    c \in Letters \cup Digits \cup
          {"$","%","&","'","(",")","*","+",",","-",".","/",":",";","<","=",">",
           "?","@","[","\\","]","^","_","!"}

\* length of the match of  http[s]?://(...)+  at the start of s, 0 if none
UrlMatchLen(s) ==
    LET http == <<"h","t","t","p">>
        sep  == <<":","/","/">>
        head == IF StartsWith(s, http \o <<"s">> \o sep) THEN 8
                ELSE IF StartsWith(s, http \o sep) THEN 7
                ELSE 0
        body == RunLen(Drop(s, head + 1), IsUrlChar)
    IN  IF head > 0 /\ body >= 1 THEN head + body ELSE 0

\* re.sub(r'http[s]?://(?:...)+', '', text)
RECURSIVE remove_urls(_)
remove_urls(s) ==
    IF s = <<>> THEN <<>>
    ELSE LET n == UrlMatchLen(s)
         IN  IF n > 0 THEN remove_urls(Drop(s, n + 1))
             ELSE <<Head(s)>> \o remove_urls(Tail(s))

\* length of the match of \S+@\S+ at the start of s, 0 if none: the run of
\* non-whitespace starting here, when an '@' lies strictly inside it
EmailMatchLen(s) ==
    LET n == RunLen(s, LAMBDA c : ~IsSpace(c))
    IN  IF \E k \in 2..(n - 1) : s[k] = "@" THEN n ELSE 0

\* re.sub(r'\S+@\S+', '', text)
RECURSIVE remove_emails(_)
remove_emails(s) ==
    IF s = <<>> THEN <<>>
    ELSE LET n == EmailMatchLen(s)
         IN  IF n > 0 THEN remove_emails(Drop(s, n + 1))
             ELSE <<Head(s)>> \o remove_emails(Tail(s))

\* re.sub(r'\s+', ' ', text)
RECURSIVE collapse_whitespace(_)
collapse_whitespace(s) ==
    IF s = <<>> THEN <<>>
    ELSE IF IsSpace(Head(s))
         THEN <<" ">> \o collapse_whitespace(Drop(s, RunLen(s, IsSpace) + 1))
         ELSE <<Head(s)>> \o collapse_whitespace(Tail(s))

\* re.sub(r'\s+', ' ', text).strip()
normalize_whitespace(s) == Strip(collapse_whitespace(s))

\* the characters kept by [^\w\s.,!?;:\-\'"()]
IsKept(c) ==
    IsWord(c) \/ IsSpace(c) \/ c \in {".", ",", "!", "?", ";", ":", "-", "'", "\"", "(", ")"}

\* re.sub(r'[^\w\s.,!?;:\-\'"()]', '', text)
RECURSIVE remove_special_characters(_)
remove_special_characters(s) ==
    IF s = <<>> THEN <<>>
    ELSE (IF IsKept(Head(s)) THEN <<Head(s)>> ELSE <<>>)
         \o remove_special_characters(Tail(s))

\* ' '.join([word for word in text.split() if word.lower() not in STOPWORDS])
RECURSIVE NonStopwords(_)
NonStopwords(ws) ==
    IF ws = <<>> THEN <<>>
    ELSE (IF Lower(Head(ws)) \notin STOPWORDS THEN <<Head(ws)>> ELSE <<>>)
         \o NonStopwords(Tail(ws))

drop_stopwords(s) == JoinSpace(NonStopwords(Split(s)))

final_cleanup_no_strip(s) == collapse_whitespace(s)

\* the last statement of the try block: re.sub(r'\s+', ' ', text).strip()
final_cleanup(s) == normalize_whitespace(s)

preprocess_text(text, remove_stopwords) ==
    IF Falsy(text) THEN <<>>
    ELSE LET t1 == clean_html(text)
             t2 == remove_urls(t1)
             t3 == remove_emails(t2)
             t4 == collapse_whitespace(t3)
             t5 == remove_special_characters(t4)
             t6 == Lower(t5)
             t7 == IF remove_stopwords THEN drop_stopwords(t6) ELSE t6
         IN  final_cleanup(t7)

----------------------------------------------------------------------------
(* Inputs of preprocess_text: concatenations of at most MaxPieces pieces *)

MaxPieces == 3

Pieces == {
    <<"<">>, <<">">>, <<"<","b",">">>, <<" ">>, <<"\t">>, <<"\n">>,
    <<"A">>, <<"a">>, <<"x">>, <<"#">>, <<"@">>,
    <<"h","t","t","p",":","/","/">> }

RECURSIVE Texts(_)
Texts(n) ==
    IF n = 0 THEN {<<>>}
    ELSE LET shorter == Texts(n - 1)
         IN  shorter \cup {p \o t : p \in Pieces, t \in shorter}

PreInit ==
    /\ pre_in \in Texts(MaxPieces) \cup {None}
    /\ pre_stop \in BOOLEAN
    /\ pre_out = <<>>
    /\ pre_done = FALSE

\* one call of preprocess_text(text, remove_stopwords)
Preprocess ==
    /\ ~pre_done
    /\ pre_out' = preprocess_text(pre_in, pre_stop)
    /\ pre_done' = TRUE
    /\ UNCHANGED <<pre_in, pre_stop>>

PreIdle ==
    /\ pre_in = <<>>
    /\ pre_stop = FALSE
    /\ pre_out = <<>>
    /\ pre_done = FALSE

----------------------------------------------------------------------------
(* app/gemini/client.py *)

\* self.rate_limit_delay, in seconds
rate_limit_delay == 1

\* resolution of the model's clock
TicksPerSecond == 2

\* the last tick of the model's clock
MaxTime == 6

\* the number of summarize calls made on one client
MaxCalls == 3

\* rate_limit_delay in ticks
DelayTicks == rate_limit_delay * TicksPerSecond

NO_CONTENT ==
    <<"N","o"," ","c","o","n","t","e","n","t"," ","t","o"," ",
      "s","u","m","m","a","r","i","z","e",".">>

UNABLE_TEXT ==
    <<"U","n","a","b","l","e"," ","t","o"," ","g","e","n","e","r","a","t","e"," ",
      "s","u","m","m","a","r","y",".">>

UNABLE_ARTICLE ==
    <<"U","n","a","b","l","e"," ","t","o"," ","g","e","n","e","r","a","t","e"," ",
      "a","r","t","i","c","l","e"," ","s","u","m","m","a","r","y",".">>

ERROR_TEXT ==
    <<"E","r","r","o","r"," ","g","e","n","e","r","a","t","i","n","g"," ",
      "s","u","m","m","a","r","y",":"," ">>

ERROR_ARTICLE ==
    <<"E","r","r","o","r"," ","g","e","n","e","r","a","t","i","n","g"," ",
      "a","r","t","i","c","l","e"," ","s","u","m","m","a","r","y",":"," ">>

Methods == {"summarize_text", "summarize_article"}

\* the guard of both methods: not content or len(content.strip()) == 0
is_empty_content_no_strip(content) == Falsy(content)

is_empty_content_none_only(content) == content = None

is_empty_content(content) == Falsy(content) \/ Len(Strip(content)) = 0

\* the string returned when the response is falsy or has no text
unable_summary(method) ==
    IF method = "summarize_text" THEN UNABLE_TEXT ELSE UNABLE_ARTICLE

\* the prefix of the string returned by the except clause
error_prefix(method) ==
    IF method = "summarize_text" THEN ERROR_TEXT ELSE ERROR_ARTICLE

error_summary_no_detail(method, e) == error_prefix(method)

\* the except clause: f"Error generating ... summary: {str(e)}"
error_summary(method, e) == error_prefix(method) \o e

\* str(e) of the exceptions generate_content (or response.text) raises
ErrorDetails == { <<"t","i","m","e","d"," ","o","u","t">> }

\* the non-empty response.text values of the external service
ResponseTexts ==
    { <<" ","*","*","B","i","g","*","*"," ","n","e","w","s",".","\n">>,
      <<" ">> }

GatewayInit ==
    /\ last_request_time = 0
    /\ gpc = "idle"
    /\ g_method = "summarize_text"
    /\ g_title = <<>>
    /\ g_content = <<>>
    /\ g_author = None
    /\ g_wake = 0
    /\ g_outcome = "none"
    /\ g_error = <<>>
    /\ g_ret = <<>>
    /\ g_count = 0
    /\ calls = <<>>

\* the clock advances; it may do so between any two statements
Tick ==
    /\ now < MaxTime
    /\ now' = now + 1
    /\ UNCHANGED <<preVars, postVars, threadVars, gatewayVars, scrapeVars, batchVars>>

\* a caller enters summarize_text(text) or summarize_article(title, content, author)
Invoke(method, title, content, author) ==
    /\ gpc = "idle"
    /\ g_count < MaxCalls
    /\ gpc' = "entered"
    /\ g_method' = method
    /\ g_title' = title
    /\ g_content' = content
    /\ g_author' = author
    /\ g_outcome' = "none"
    /\ g_error' = <<>>
    /\ g_count' = g_count + 1
    /\ UNCHANGED <<last_request_time, g_wake, g_ret, calls>>

\* if not content or len(content.strip()) == 0: return "No content to summarize."
ReturnNoContent ==
    /\ gpc = "entered"
    /\ is_empty_content(g_content)
    /\ gpc' = "returned"
    /\ g_ret' = NO_CONTENT
    /\ UNCHANGED <<last_request_time, g_method, g_title, g_content, g_author,
                   g_wake, g_outcome, g_error, g_count, calls>>

\* _apply_rate_limit, up to the call of time.sleep
RateLimitRead ==
    /\ gpc = "entered"
    /\ ~is_empty_content(g_content)
    /\ LET current_time == now
           time_since_last_request == current_time - last_request_time
       IN  IF time_since_last_request < DelayTicks
           THEN /\ gpc' = "sleeping"
                /\ g_wake' = now + (DelayTicks - time_since_last_request)
           ELSE /\ gpc' = "stamp"
                /\ UNCHANGED g_wake
    /\ UNCHANGED <<last_request_time, g_method, g_title, g_content, g_author,
                   g_outcome, g_error, g_ret, g_count, calls>>

\* time.sleep(sleep_time) returns once sleep_time has elapsed
RateLimitWake ==
    /\ gpc = "sleeping"
    /\ now >= g_wake
    /\ gpc' = "stamp"
    /\ UNCHANGED <<last_request_time, g_method, g_title, g_content, g_author,
                   g_wake, g_outcome, g_error, g_ret, g_count, calls>>

\* self.last_request_time = time.time()
RateLimitStamp ==
    /\ gpc = "stamp"
    /\ last_request_time' = now
    /\ gpc' = "prompt"
    /\ UNCHANGED <<g_method, g_title, g_content, g_author, g_wake, g_outcome, g_error,
                   g_ret, g_count, calls>>

\* the prompt is built and self.model.generate_content(prompt) is issued
GenerateContent ==
    /\ gpc = "prompt"
    /\ calls' = Append(calls, now)
    /\ gpc' = "waiting"
    /\ UNCHANGED <<last_request_time, g_method, g_title, g_content, g_author,
                   g_wake, g_outcome, g_error, g_ret, g_count>>

\* response and response.text are truthy: return response.text.strip()
ResponseText ==
    /\ gpc = "waiting"
    /\ \E t \in ResponseTexts : g_ret' = Strip(t)
    /\ g_outcome' = "text"
    /\ g_error' = <<>>
    /\ gpc' = "returned"
    /\ UNCHANGED <<last_request_time, g_method, g_title, g_content, g_author,
                   g_wake, g_count, calls>>

\* the response is falsy or its text is empty
ResponseEmpty ==
    /\ gpc = "waiting"
    /\ g_ret' = unable_summary(g_method)
    /\ g_outcome' = "empty"
    /\ g_error' = <<>>
    /\ gpc' = "returned"
    /\ UNCHANGED <<last_request_time, g_method, g_title, g_content, g_author,
                   g_wake, g_count, calls>>

\* generate_content (or reading response.text) raises: the except clause
ResponseRaises ==
    /\ gpc = "waiting"
    /\ \E e \in ErrorDetails :
          /\ g_ret' = error_summary(g_method, e)
          /\ g_error' = e
    /\ g_outcome' = "raised"
    /\ gpc' = "returned"
    /\ UNCHANGED <<last_request_time, g_method, g_title, g_content, g_author,
                   g_wake, g_count, calls>>

\* the call's frame is gone once its caller has the returned string
LeaveCall ==
    /\ gpc' = "idle"
    /\ g_method' = "summarize_text"
    /\ g_title' = <<>>
    /\ g_content' = <<>>
    /\ g_author' = None
    /\ g_wake' = 0
    /\ g_outcome' = "none"
    /\ g_error' = <<>>
    /\ g_ret' = <<>>
    /\ UNCHANGED <<last_request_time, g_count, calls>>

\* the steps of one summarize call
GatewayStep ==
    \/ ReturnNoContent
    \/ RateLimitRead
    \/ RateLimitWake
    \/ RateLimitStamp
    \/ GenerateContent
    \/ ResponseText
    \/ ResponseEmpty
    \/ ResponseRaises

----------------------------------------------------------------------------
(* app/scrapping/scraper.py *)

\* seq[:limit]
Slice(seq, limit) ==
    IF limit >= 0
    THEN SubSeq(seq, 1, IF limit < Len(seq) THEN limit ELSE Len(seq))
    ELSE SubSeq(seq, 1, Len(seq) + limit)

\* sep.join(parts)
RECURSIVE Join(_, _)
Join(sep, parts) ==
    IF parts = <<>> THEN <<>>
    ELSE IF Len(parts) = 1 THEN parts[1]
    ELSE parts[1] \o sep \o Join(sep, Tail(parts))

\* str(n) for a small positive n
Str(n) ==
    IF n < 10 THEN <<CHOOSE d \in Digits : d = ToString(n)>>
    ELSE <<"1", CHOOSE d \in Digits : d = ToString(n - 10)>>

QUOTES_HOST ==
    <<"q","u","o","t","e","s",".","t","o","s","c","r","a","p","e",".","c","o","m">>

HN_HOST ==
    <<"n","e","w","s",".","y","c","o","m","b","i","n","a","t","o","r",".","c","o","m">>

UNKNOWN == <<"U","n","k","n","o","w","n">>

\* the cap of the generic strategy's content: get_text().strip()[:2000]
content_limit == 2000

\* what a strategy hands back: the list it returns, or an exception
Returned(articles) == [raised |-> FALSE, articles |-> articles]
Raised == [raised |-> TRUE, articles |-> <<>>]

\* response = self.session.get(url); response.raise_for_status();
\* soup = BeautifulSoup(response.content, 'html.parser')
PageLoads(page) == page.fetch = "ok" /\ page.parse = "ok"

\* one quote container: text/author are None when the sub-element is absent
QuoteWellFormed(q) == q.text # None /\ q.author # None

\* the dict appended for one quote container
quote_article(url, q) ==
    [ title      |-> <<"Q","u","o","t","e"," ","b","y"," ">> \o q.author,
      author     |-> q.author,
      content    |-> q.text \o <<"\n","\n","T","a","g","s",":"," ">>
                            \o Join(<<",", " ">>, q.tags),
      source_url |-> url ]

_scrape_quotes_to_scrape(url, limit, page) ==
    IF ~PageLoads(page) THEN Raised
    ELSE LET quotes == Slice(page.quotes, limit)
         IN  \* quote.find(...) is None for a missing sub-element, and
             \* None.get_text() raises AttributeError out of the loop
             IF \E i \in DOMAIN quotes : ~QuoteWellFormed(quotes[i]) THEN Raised
             ELSE Returned([i \in DOMAIN quotes |-> quote_article(url, quotes[i])])

\* a row yields a dict when it has a span.titleline holding an <a>
RowHasTitle(row) == row.titleline /\ row.link_text # None

\* the dict appended for one tr.athing row
hn_article(url, row) ==
    LET title  == Strip(row.link_text)
        author == IF row.next_row /\ row.hnuser # None THEN row.hnuser ELSE UNKNOWN
    IN  [ title      |-> title,
          author     |-> author,
          content    |-> <<"T","i","t","l","e",":"," ">> \o title
                         \o <<"\n","L","i","n","k",":"," ">> \o row.href,
          source_url |-> url ]

RECURSIVE HnArticles(_, _)
HnArticles(url, rows) ==
    IF rows = <<>> THEN <<>>
    ELSE (IF RowHasTitle(Head(rows)) THEN <<hn_article(url, Head(rows))>> ELSE <<>>)
         \o HnArticles(url, Tail(rows))

_scrape_hacker_news(url, limit, page) ==
    IF ~PageLoads(page) THEN Raised
    ELSE Returned(HnArticles(url, Slice(page.rows, limit)))

\* 'post' in x.lower() / 'article' in x.lower() on one class name
ClassHas(e, word) == \E i \in DOMAIN e.class : Contains(Lower(e.class[i]), word)

\* the elements satisfying P, in document order
SelectElements(elements, P(_)) ==
    LET idx == {i \in DOMAIN elements : P(elements[i])}
        F[k \in 0..Len(elements)] ==
            IF k = 0 THEN <<>>
            ELSE IF k \in idx THEN Append(F[k - 1], elements[k]) ELSE F[k - 1]
    IN  F[Len(elements)]

candidates_document_order(page) ==
    SelectElements(page.elements,
        LAMBDA e : \/ e.tag = "article"
                   \/ e.tag = "div" /\ ClassHas(e, <<"p","o","s","t">>)
                   \/ e.tag = "div" /\ ClassHas(e, <<"a","r","t","i","c","l","e">>))

\* soup.find_all('article') + find_all('div', class_ has 'post')
\*                          + find_all('div', class_ has 'article')
candidates(page) ==
    SelectElements(page.elements, LAMBDA e : e.tag = "article")
    \o SelectElements(page.elements,
         LAMBDA e : e.tag = "div" /\ ClassHas(e, <<"p","o","s","t">>))
    \o SelectElements(page.elements,
         LAMBDA e : e.tag = "div" /\ ClassHas(e, <<"a","r","t","i","c","l","e">>))

potential_articles(page, limit) ==
    Slice(candidates(page), limit)

\* article.find('h1') or find('h2') or find('h3') or find('title')
title_element(e) ==
    IF e.h1 # None THEN e.h1
    ELSE IF e.h2 # None THEN e.h2
    ELSE IF e.h3 # None THEN e.h3
    ELSE e.title

\* article.get_text(): the text of the headings and of the body, and of the
\* script/style children while they are still in the tree
get_text(e, with_scripts) ==
    (IF e.h1 # None THEN e.h1 ELSE <<>>) \o (IF e.h2 # None THEN e.h2 ELSE <<>>)
    \o (IF e.h3 # None THEN e.h3 ELSE <<>>) \o (IF e.title # None THEN e.title ELSE <<>>)
    \o (IF with_scripts THEN e.script ELSE <<>>) \o e.body

\* the dict appended for candidate number i (0-based) of the generic strategy
generic_article(url, i, e) ==
    LET stripped == Strip(get_text(e, FALSE))
    IN  [ title      |-> IF title_element(e) # None THEN Strip(title_element(e))
                         ELSE <<"A","r","t","i","c","l","e"," ">> \o Str(i + 1),
          author     |-> UNKNOWN,
          content    |-> SubSeq(stripped, 1,
                                IF Len(stripped) < content_limit THEN Len(stripped)
                                ELSE content_limit),
          source_url |-> url ]

\* the strategy has its own try/except: it logs and returns what it has
_scrape_generic(url, limit, page) ==
    IF ~PageLoads(page) THEN Returned(<<>>)
    ELSE LET cand == potential_articles(page, limit)
         IN  Returned([i \in DOMAIN cand |-> generic_article(url, i - 1, cand[i])])

\* the if/elif/else of scrape_articles
strategy_hn_first(url) ==
    IF Contains(url, HN_HOST) THEN "hacker_news"
    ELSE IF Contains(url, QUOTES_HOST) THEN "quotes"
    ELSE "generic"

strategy_for(url) ==
    IF Contains(url, QUOTES_HOST) THEN "quotes"
    ELSE IF Contains(url, HN_HOST) THEN "hacker_news"
    ELSE "generic"

\* the body of the try block of scrape_articles
run_strategy(url, limit, page) ==
    LET which == strategy_for(url)
        r == IF which = "quotes" THEN _scrape_quotes_to_scrape(url, limit, page)
             ELSE IF which = "hacker_news" THEN _scrape_hacker_news(url, limit, page)
             ELSE _scrape_generic(url, limit, page)
    IN  [raised |-> r.raised, articles |-> r.articles, ran |-> <<which>>]

scrape_articles_no_except(url, limit, page) == run_strategy(url, limit, page)

\* scrape_articles: except Exception: log, return []
scrape_articles(url, limit, page) ==
    LET r == run_strategy(url, limit, page)
    IN  IF r.raised THEN [raised |-> FALSE, articles |-> <<>>, ran |-> r.ran]
        ELSE r


(* Inputs of scrape_articles *)

\* most containers / rows / elements in a page
MaxItems == 3

\* limits range over -NegLimits .. MaxLimit
NegLimits == 1
MaxLimit == 2

Limits == (0 - NegLimits)..MaxLimit

OTHER_HOST == <<"x",".","i","o">>

Urls ==
    LET scheme == <<"h","t","t","p",":","/","/">>
    IN  { scheme \o QUOTES_HOST, scheme \o HN_HOST, scheme \o OTHER_HOST,
          scheme \o QUOTES_HOST \o <<"/">> \o HN_HOST,
          scheme \o HN_HOST \o <<"/">> \o QUOTES_HOST }

QuoteDivs ==
    { [text |-> <<"B","e",".">>, author |-> <<"A","l">>,
       tags |-> << <<"l","i","f","e">>, <<"b","e">> >>],
      [text |-> None, author |-> <<"B","o">>, tags |-> <<>>],
      [text |-> <<"G","o",".">>, author |-> None, tags |-> <<>>] }

Rows ==
    { [titleline |-> TRUE, link_text |-> <<" ","N","e","w","s"," ">>,
       href |-> <<"/","a">>, next_row |-> TRUE, hnuser |-> <<"p","g">>],
      [titleline |-> TRUE, link_text |-> <<"J","o","b">>,
       href |-> <<>>, next_row |-> FALSE, hnuser |-> None],
      [titleline |-> FALSE, link_text |-> None,
       href |-> <<>>, next_row |-> TRUE, hnuser |-> None] }

Elements ==
    { [tag |-> "article", class |-> <<>>, h1 |-> <<"H","i">>, h2 |-> None,
       h3 |-> None, title |-> None, script |-> <<"v","a","r">>,
       body |-> <<" ","<","b",">","T","e","x","t","\n">>],
      [tag |-> "div", class |-> << <<"B","l","o","g","-","P","o","s","t">> >>,
       h1 |-> None, h2 |-> None, h3 |-> None, title |-> None, script |-> <<>>,
       body |-> <<" ","#"," ">>],
      [tag |-> "div",
       class |-> << <<"p","o","s","t">>, <<"a","r","t","i","c","l","e">> >>,
       h1 |-> None, h2 |-> <<>>, h3 |-> <<"S","u","b">>, title |-> None,
       script |-> <<>>, body |-> <<>>],
      [tag |-> "div", class |-> << <<"n","a","v">> >>, h1 |-> <<"M","e","n","u">>,
       h2 |-> None, h3 |-> None, title |-> None, script |-> <<>>,
       body |-> <<"x">>] }

\* the sequences over S of length at most n
RECURSIVE SeqsUpTo(_, _)
SeqsUpTo(S, n) ==
    IF n = 0 THEN {<<>>}
    ELSE LET shorter == SeqsUpTo(S, n - 1)
         IN  shorter \cup {<<x>> \o t : x \in S, t \in {u \in shorter : Len(u) = n - 1}}

\* the parse trees: pages of quote containers, of item rows, of generic
\* elements, and one page holding one of each
Documents ==
    {[quotes |-> q, rows |-> <<>>, elements |-> <<>>] : q \in SeqsUpTo(QuoteDivs, MaxItems)}
    \cup {[quotes |-> <<>>, rows |-> r, elements |-> <<>>] : r \in SeqsUpTo(Rows, MaxItems)}
    \cup {[quotes |-> <<>>, rows |-> <<>>, elements |-> e] :
             e \in SeqsUpTo(Elements, MaxItems)}
    \cup {[quotes |-> <<q>>, rows |-> <<r>>, elements |-> <<e>>] :
             q \in QuoteDivs, r \in Rows, e \in Elements}

Loads == { [fetch |-> "ok", parse |-> "ok"], [fetch |-> "ok", parse |-> "error"],
           [fetch |-> "network_error", parse |-> "ok"],
           [fetch |-> "http_error", parse |-> "ok"] }

Page(load, doc) ==
    [fetch |-> load.fetch, parse |-> load.parse, quotes |-> doc.quotes,
     rows |-> doc.rows, elements |-> doc.elements]

NoResult == [raised |-> FALSE, articles |-> <<>>, ran |-> <<>>]

ScrapeIdle ==
    /\ sc_url = <<>>
    /\ sc_limit = 0
    /\ sc_page = Page([fetch |-> "ok", parse |-> "ok"],
                      [quotes |-> <<>>, rows |-> <<>>, elements |-> <<>>])
    /\ sc_result = NoResult
    /\ sc_done = FALSE

ScrapeInit ==
    /\ sc_url \in Urls
    /\ sc_limit \in Limits
    /\ sc_page \in {Page(l, d) : l \in Loads, d \in Documents}
    /\ sc_result = NoResult
    /\ sc_done = FALSE

\* one call of scrape_articles(url, limit)
Scrape ==
    /\ ~sc_done
    /\ sc_result' = scrape_articles(sc_url, sc_limit, sc_page)
    /\ sc_done' = TRUE
    /\ UNCHANGED <<sc_url, sc_limit, sc_page>>

----------------------------------------------------------------------------
(* app/processing/postprocessor.py *)

\* characters a TLA+ string cannot hold are written by their code point
BULLET == "U+2022"
BACKTICK == "U+0060"

\* the bullet class as the source file spells it: '-', U+00E2, U+20AC,
\* U+00A2 and '*'
IsBulletMarker(c) == c \in {"-", "U+00E2", "U+20AC", "U+00A2", "*"}

\* index of the first occurrence of delimiter d in s at or after `from`, 0 if none
FindFrom(s, d, from) ==
    LET hits == {i \in from..(Len(s) - Len(d) + 1) : SubSeq(s, i, i + Len(d) - 1) = d}
    IN  IF hits = {} THEN 0 ELSE CHOOSE i \in hits : \A j \in hits : i <= j

\* re.sub(d (.*?) d, r'\1', s) for a delimiter d: each leftmost pair of
\* delimiters is dropped and what it encloses is kept
strip_pairs_keep(s, d) == s

RECURSIVE strip_pairs(_, _)
strip_pairs(s, d) ==
    IF s = <<>> THEN <<>>
    ELSE LET close == IF StartsWith(s, d) THEN FindFrom(s, d, Len(d) + 1) ELSE 0
         IN  IF close > 0
             THEN SubSeq(s, Len(d) + 1, close - 1)
                  \o strip_pairs(Drop(s, close + Len(d)), d)
             ELSE <<Head(s)>> \o strip_pairs(Tail(s), d)

\* re.sub(r'^[<bullet class>]\s+', '', s, flags=re.MULTILINE) on a text that holds no
\* line break (whitespace was collapsed to single spaces before)
strip_bullet(s) ==
    IF Len(s) >= 2 /\ IsBulletMarker(s[1]) /\ IsSpace(s[2])
    THEN Drop(s, 2 + RunLen(Drop(s, 2), IsSpace))
    ELSE s

\* re.sub(r'^\d+\.\s+', '', s, flags=re.MULTILINE), likewise
strip_number(s) ==
    LET n == RunLen(s, LAMBDA c : c \in Digits)
    IN  IF n >= 1 /\ Len(s) >= n + 2 /\ s[n + 1] = "." /\ IsSpace(s[n + 2])
        THEN Drop(s, n + 2 + RunLen(Drop(s, n + 2), IsSpace))
        ELSE s

BoundaryLen_no_lookahead(s, i) ==
    LET n == RunLen(Drop(s, i), IsSpace)
    IN  IF i >= 2 /\ s[i - 1] \in {".", "!", "?"} /\ n >= 1 THEN n ELSE 0

\* length of the match of (?<=[.!?])\s+(?=[A-Z]) at position i of s, 0 if none
BoundaryLen(s, i) ==
    LET n == RunLen(Drop(s, i), IsSpace)
    IN  IF /\ i >= 2
           /\ s[i - 1] \in {".", "!", "?"}
           /\ n >= 1
           /\ i + n <= Len(s)
           /\ s[i + n] \in UpperChars
        THEN n ELSE 0

\* re.split(r'(?<=[.!?])\s+(?=[A-Z])', text)
RECURSIVE SplitFrom(_, _, _)
SplitFrom(s, start, i) ==
    IF i > Len(s) THEN <<SubSeq(s, start, Len(s))>>
    ELSE LET n == BoundaryLen(s, i)
         IN  IF n > 0
             THEN <<SubSeq(s, start, i - 1)>> \o SplitFrom(s, i + n, i + n)
             ELSE SplitFrom(s, start, i + 1)

\* the shortest fragment split_sentences keeps: len(sentence) > 5
min_sentence_length == 6

RECURSIVE CleanSentences(_)
CleanSentences(parts) ==
    IF parts = <<>> THEN <<>>
    ELSE LET sentence == Strip(Head(parts))
         IN  (IF Len(sentence) >= min_sentence_length THEN <<sentence>> ELSE <<>>)
             \o CleanSentences(Tail(parts))

split_sentences(text) == CleanSentences(SplitFrom(text, 1, 1))

\* the default of postprocess_summary's max_sentences
default_max_sentences == 5

\* postprocess_summary up to the call of split_sentences: whitespace, markdown
\* and list markers
clean_markup(raw_summary) ==
    LET s1 == normalize_whitespace(raw_summary)
        s2 == strip_pairs(s1, <<"*", "*">>)
        s3 == strip_pairs(s2, <<"*">>)
        s4 == strip_pairs(s3, <<BACKTICK>>)
        s5 == strip_bullet(s4)
    IN  strip_number(s5)

postprocess_summary(raw_summary, max_sentences) ==
    IF Falsy(raw_summary) THEN <<>>
    ELSE LET sentences == split_sentences(clean_markup(raw_summary))
             kept == IF Len(sentences) > max_sentences
                     THEN Slice(sentences, max_sentences)
                     ELSE sentences
             processed_summary == Strip(JoinSpace(kept))
         IN  IF processed_summary # <<>> /\ ~EndsWith(processed_summary, <<".">>)
             THEN processed_summary \o <<".">>
             ELSE processed_summary

\* str.rfind(c): the 0-based index of the last occurrence of c, -1 if none
rfind(s, c) ==
    LET hits == {i \in 1..Len(s) : s[i] = c}
    IN  IF hits = {} THEN 0 - 1 ELSE (CHOOSE i \in hits : \A j \in hits : j <= i) - 1

Max3(a, b, c) ==
    LET ab == IF a >= b THEN a ELSE b
    IN  IF ab >= c THEN ab ELSE c

\* the largest power of two that is at most k (k >= 1)
RECURSIVE FloorPow2(_)
FloorPow2(k) == IF k < 2 THEN 1 ELSE 2 * FloorPow2(k \div 2)

Abs(n) == IF n < 0 THEN 0 - n ELSE n

\* max_chars * 0.7 is a product of IEEE-754 doubles.  The double 0.7 is
\* 0.7 - 0.4 * 2^-53, so the exact product lies 0.4 * |max_chars| * 2^-53 short
\* of 7 * max_chars / 10.  When that is a whole number k, the product rounds to
\* the double next to k (of smaller magnitude) exactly when the shortfall
\* exceeds half the spacing of the doubles there, 2^e * 2^-53 with 2^e the
\* largest power of two at most |k|; otherwise it rounds to k itself.
ProductFallsShort(max_chars) ==
    /\ max_chars # 0
    /\ max_chars % 10 = 0
    /\ 4 * Abs(max_chars) > 10 * FloorPow2((7 * Abs(max_chars)) \div 10)

\* last_sentence_end > max_chars * 0.7, for an integer last_sentence_end
past_seventy_percent(last_sentence_end, max_chars) ==
    IF ProductFallsShort(max_chars)
    THEN 10 * last_sentence_end >= 7 * max_chars
    ELSE 10 * last_sentence_end > 7 * max_chars

limit_length(text, max_chars) ==
    IF Len(text) <= max_chars THEN text
    ELSE LET truncated == Slice(text, max_chars)
             last_sentence_end == Max3(rfind(truncated, "."),
                                       rfind(truncated, "!"),
                                       rfind(truncated, "?"))
         IN  IF past_seventy_percent(last_sentence_end, max_chars)
             THEN Slice(text, last_sentence_end + 1)
             ELSE truncated \o <<".", ".", ".">>

----------------------------------------------------------------------------
(* Inputs of postprocess_summary, split_sentences and limit_length *)

\* most pieces in one summary
MaxParts == 3

\* largest max_sentences tried
MaxSentences == 2

\* list lines, marked-up words, sentences of 5, 6 and more characters, one
\* that starts in lower case, and whitespace
SummaryPieces == {
    <<"-"," ","G","o"," ","o","n",".","\n">>,
    <<"2","."," ","U","p"," ","o","k","?","\n">>,
    <<BULLET," ","H","i"," ","a","l","l",".","\n">>,
    <<"W","e"," ","d","o","."," ">>,
    <<"*","*","B","i","g","*","*"," ">>,
    <<"N","o"," ","x","."," ">>,
    <<"a","n","d"," ","s","o"," ","o","n","."," ">>,
    <<"S","t","o","p"," ","i","t","!"," ">>,
    <<BACKTICK,"x",BACKTICK," ">>,
    <<"*">>,
    <<" ","\t">> }

RECURSIVE Concats(_, _)
Concats(P, n) ==
    IF n = 0 THEN {<<>>}
    ELSE LET shorter == Concats(P, n - 1)
         IN  shorter \cup {p \o t : p \in P, t \in shorter}

Summaries == Concats(SummaryPieces, MaxParts)

\* largest max_chars tried, how far below zero max_chars goes, and how far
\* a text may exceed max_chars
MaxChars == 90
NegChars == 2
Overrun == 3

\* a text of the given length with sentence punctuation at the 0-based
\* index p (none if p < 0) and, if `two`, also at p \div 2
PunctuatedText(length, p, two) ==
    [i \in 1..length |->
        IF i - 1 = p THEN <<".", "!", "?">>[(p % 3) + 1]
        ELSE IF two /\ p > 0 /\ i - 1 = p \div 2 THEN "?"
        ELSE "a"]

PostIdle ==
    /\ po_fn = "none"
    /\ po_text = <<>>
    /\ po_max = 0
    /\ po_out = <<>>
    /\ po_done = FALSE

PostInit ==
    /\ po_out = <<>>
    /\ po_done = FALSE
    /\ \/ /\ po_fn = "postprocess_summary"
          /\ po_text \in Summaries \cup {None}
          /\ po_max \in 0..MaxSentences \cup {default_max_sentences}
       \/ /\ po_fn = "split_sentences"
          /\ po_text \in Summaries
          /\ po_max = 0
       \/ /\ po_fn = "limit_length"
          /\ po_max \in (0 - NegChars)..MaxChars
          /\ \E d \in (0 - 1)..Overrun :
                /\ po_max + d >= 0
                /\ \E p \in (0 - 1)..(po_max + d - 1), two \in BOOLEAN :
                      po_text = PunctuatedText(po_max + d, p, two)

\* one call of postprocess_summary(summary, max_sentences)
PostprocessSummary ==
    /\ po_fn = "postprocess_summary"
    /\ ~po_done
    /\ po_out' = postprocess_summary(po_text, po_max)
    /\ po_done' = TRUE
    /\ UNCHANGED <<po_fn, po_text, po_max>>

\* one call of split_sentences(text)
SplitSentences ==
    /\ po_fn = "split_sentences"
    /\ ~po_done
    /\ po_out' = split_sentences(po_text)
    /\ po_done' = TRUE
    /\ UNCHANGED <<po_fn, po_text, po_max>>

\* one call of limit_length(text, max_chars)
LimitLength ==
    /\ po_fn = "limit_length"
    /\ ~po_done
    /\ po_out' = limit_length(po_text, po_max)
    /\ po_done' = TRUE
    /\ UNCHANGED <<po_fn, po_text, po_max>>

----------------------------------------------------------------------------
(* app/api/routes.py: scrape_and_summarize (cli.py: scrape runs the same loop) *)

\* most records in one batch
MaxBatch == 2

NoResponse == [status |-> 0, articles_processed |-> 0, article_ids |-> <<>>]

BatchIdle ==
    /\ bpc = "start"
    /\ api_key = TRUE
    /\ client_created = FALSE
    /\ b_idx = 0
    /\ preprocessed_content = <<>>
    /\ summary = <<>>
    /\ final_summary = <<>>
    /\ db_rows = <<>>
    /\ db_inactive = FALSE
    /\ processed_article_ids = <<>>
    /\ b_faulted = {}
    /\ b_skipped = {}
    /\ b_response = NoResponse

scraped_articles == sc_result.articles

article_data == scraped_articles[b_idx]

\* Article(title=..., author=..., content=..., summary=..., source_url=...)
\* with the id the database gives it
Article(id, data, text) ==
    [ id         |-> id,
      title      |-> data.title,
      author     |-> data.author,
      content    |-> data.content,
      summary    |-> text,
      source_url |-> data.source_url ]

\* the next value of the autoincrement primary key
NextId == Len(db_rows) + 1

\* return ScrapeResponse(...) with the ids collected
Respond(ids) ==
    [status |-> 200, articles_processed |-> Len(ids), article_ids |-> ids]

EndOfPass_same_record(ids) ==
    /\ preprocessed_content' = <<>>
    /\ summary' = <<>>
    /\ final_summary' = <<>>
    /\ bpc' = "preprocess"
    /\ UNCHANGED <<b_idx, b_response>>

\* the end of one pass through the loop body: the next record, or the
\* return after the last one; the locals are dead until assigned again
EndOfPass(ids) ==
    /\ preprocessed_content' = <<>>
    /\ summary' = <<>>
    /\ final_summary' = <<>>
    /\ IF b_idx < Len(scraped_articles)
       THEN /\ b_idx' = b_idx + 1
            /\ bpc' = "preprocess"
            /\ UNCHANGED b_response
       ELSE /\ UNCHANGED b_idx
            /\ bpc' = "done"
            /\ b_response' = Respond(ids)

ScrapeStage_client_first ==
    /\ bpc = "start"
    /\ Scrape
    /\ client_created' = (client_created \/ api_key)
    /\ IF sc_result'.articles = <<>>
       THEN /\ bpc' = "done"
            /\ b_response' = [NoResponse EXCEPT !.status = 404]
       ELSE /\ bpc' = "get_client"
            /\ UNCHANGED b_response
    /\ UNCHANGED <<preVars, postVars, threadVars, now, gatewayVars, api_key, b_idx,
                   preprocessed_content, summary, final_summary, db_rows, db_inactive,
                   processed_article_ids, b_faulted, b_skipped>>

\* scraped_articles = scrape_articles(request.url, request.limit);
\* if not scraped_articles: raise HTTPException(404)
ScrapeStage ==
    /\ bpc = "start"
    /\ Scrape
    /\ IF sc_result'.articles = <<>>
       THEN /\ bpc' = "done"
            /\ b_response' = [NoResponse EXCEPT !.status = 404]
       ELSE /\ bpc' = "get_client"
            /\ UNCHANGED b_response
    /\ UNCHANGED <<preVars, postVars, threadVars, now, gatewayVars, api_key, client_created, b_idx,
                   preprocessed_content, summary, final_summary, db_rows, db_inactive,
                   processed_article_ids, b_faulted, b_skipped>>

\* gemini_client = get_gemini_client(): the first call constructs the client,
\* which raises ValueError without GEMINI_API_KEY (answered with a 500)
GetClient ==
    /\ bpc = "get_client"
    /\ IF client_created \/ api_key
       THEN /\ client_created' = TRUE
            /\ b_idx' = 1
            /\ bpc' = "preprocess"
            /\ UNCHANGED b_response
       ELSE /\ bpc' = "done"
            /\ b_response' = [NoResponse EXCEPT !.status = 500]
            /\ UNCHANGED <<client_created, b_idx>>
    /\ UNCHANGED <<preVars, postVars, threadVars, now, gatewayVars, scrapeVars, api_key,
                   preprocessed_content, summary, final_summary, db_rows, db_inactive,
                   processed_article_ids, b_faulted, b_skipped>>

PreprocessStage_then_postprocess ==
    /\ bpc = "preprocess"
    /\ preprocessed_content' = preprocess_text(article_data.content, FALSE)
    /\ bpc' = "postprocess"
    /\ UNCHANGED <<preVars, postVars, threadVars, now, gatewayVars, scrapeVars, api_key,
                   client_created, b_idx, summary, final_summary, db_rows, db_inactive,
                   processed_article_ids, b_faulted, b_skipped, b_response>>

\* preprocessed_content = preprocess_text(article_data['content'])
PreprocessStage ==
    /\ bpc = "preprocess"
    /\ preprocessed_content' = preprocess_text(article_data.content, FALSE)
    /\ bpc' = "summarize"
    /\ UNCHANGED <<preVars, postVars, threadVars, now, gatewayVars, scrapeVars, api_key, client_created,
                   b_idx, summary, final_summary, db_rows, db_inactive,
                   processed_article_ids, b_faulted, b_skipped, b_response>>

\* summary = gemini_client.summarize_article(title=..., content=..., author=...):
\* the call is made
SummarizeStage ==
    /\ bpc = "summarize"
    /\ Invoke("summarize_article", article_data.title, preprocessed_content,
              article_data.author)
    /\ bpc' = "summarizing"
    /\ UNCHANGED <<preVars, postVars, threadVars, now, scrapeVars, api_key, client_created, b_idx,
                   preprocessed_content, summary, final_summary, db_rows, db_inactive,
                   processed_article_ids, b_faulted, b_skipped, b_response>>

\* the steps inside summarize_article
SummarizeRun ==
    /\ bpc = "summarizing"
    /\ GatewayStep
    /\ UNCHANGED <<preVars, postVars, threadVars, now, scrapeVars, batchVars>>

\* summarize_article has returned: summary is bound
SummarizeReturn ==
    /\ bpc = "summarizing"
    /\ gpc = "returned"
    /\ LeaveCall
    /\ summary' = g_ret
    /\ bpc' = "postprocess"
    /\ UNCHANGED <<preVars, postVars, threadVars, now, scrapeVars, api_key, client_created, b_idx,
                   preprocessed_content, final_summary, db_rows, db_inactive,
                   processed_article_ids, b_faulted, b_skipped, b_response>>

\* final_summary = postprocess_summary(summary)
PostprocessStage ==
    /\ bpc = "postprocess"
    /\ final_summary' = postprocess_summary(summary, default_max_sentences)
    /\ bpc' = "persist"
    /\ UNCHANGED <<preVars, postVars, threadVars, now, gatewayVars, scrapeVars, api_key, client_created,
                   b_idx, preprocessed_content, summary, db_rows, db_inactive,
                   processed_article_ids, b_faulted, b_skipped, b_response>>

\* an exception raised inside the try block before anything is stored:
\* except Exception: log, continue
StageRaises ==
    /\ bpc \in {"preprocess", "summarize", "postprocess"}
    /\ b_faulted' = b_faulted \cup {b_idx}
    /\ b_skipped' = b_skipped \cup {b_idx}
    /\ EndOfPass(processed_article_ids)
    /\ UNCHANGED <<preVars, postVars, threadVars, now, gatewayVars, scrapeVars, api_key, client_created,
                   db_rows, db_inactive, processed_article_ids>>

PersistStage_raw_summary ==
    /\ bpc = "persist"
    /\ ~db_inactive
    /\ db_rows' = Append(db_rows, Article(NextId, article_data, summary))
    /\ processed_article_ids' = Append(processed_article_ids, NextId)
    /\ EndOfPass(processed_article_ids')
    /\ UNCHANGED <<preVars, postVars, threadVars, now, gatewayVars, scrapeVars, api_key,
                   client_created, db_inactive, b_faulted, b_skipped>>

\* db.add(article); db.commit(); db.refresh(article);
\* processed_article_ids.append(article.id)
PersistStage ==
    /\ bpc = "persist"
    /\ ~db_inactive
    /\ db_rows' = Append(db_rows, Article(NextId, article_data, final_summary))
    /\ processed_article_ids' = Append(processed_article_ids, NextId)
    /\ EndOfPass(processed_article_ids')
    /\ UNCHANGED <<preVars, postVars, threadVars, now, gatewayVars, scrapeVars, api_key, client_created,
                   db_inactive, b_faulted, b_skipped>>

\* db.commit() raises (the INSERT or the COMMIT is refused): nothing is stored.
\* A Session whose flush failed refuses further work until rollback() is
\* called, and the except clause calls none; a failure of the COMMIT itself
\* leaves the session usable.
CommitRaises ==
    /\ bpc = "persist"
    /\ ~db_inactive
    /\ db_inactive' \in BOOLEAN
    /\ b_faulted' = b_faulted \cup {b_idx}
    /\ b_skipped' = b_skipped \cup {b_idx}
    /\ EndOfPass(processed_article_ids)
    /\ UNCHANGED <<preVars, postVars, threadVars, now, gatewayVars, scrapeVars, api_key, client_created,
                   db_rows, processed_article_ids>>

\* db.commit() on a session that awaits a rollback raises PendingRollbackError
CommitRefused ==
    /\ bpc = "persist"
    /\ db_inactive
    /\ b_skipped' = b_skipped \cup {b_idx}
    /\ EndOfPass(processed_article_ids)
    /\ UNCHANGED <<preVars, postVars, threadVars, now, gatewayVars, scrapeVars, api_key, client_created,
                   db_rows, db_inactive, processed_article_ids, b_faulted>>

\* the requests of the pipeline: pages of at most MaxBatch items
BatchUrls ==
    LET scheme == <<"h","t","t","p",":","/","/">>
    IN  { scheme \o QUOTES_HOST, scheme \o OTHER_HOST }

BatchPages ==
    { Page(l, d) : l \in { [fetch |-> "ok", parse |-> "ok"],
                           [fetch |-> "http_error", parse |-> "ok"] },
                   d \in { x \in Documents :
                            /\ Len(x.quotes) <= MaxBatch
                            /\ x.rows = <<>>
                            /\ Len(x.elements) <= MaxBatch
                            /\ \A i \in DOMAIN x.elements :
                                  x.elements[i].class # << <<"n","a","v">> >> } }

BatchInit ==
    /\ sc_url \in BatchUrls
    /\ sc_limit = MaxBatch
    /\ sc_page \in BatchPages
    /\ sc_result = NoResult
    /\ sc_done = FALSE
    /\ bpc = "start"
    /\ api_key \in BOOLEAN
    /\ client_created = FALSE
    /\ b_idx = 0
    /\ preprocessed_content = <<>>
    /\ summary = <<>>
    /\ final_summary = <<>>
    /\ db_rows = <<>>
    /\ db_inactive = FALSE
    /\ processed_article_ids = <<>>
    /\ b_faulted = {}
    /\ b_skipped = {}
    /\ b_response = NoResponse

----------------------------------------------------------------------------
(* Threads that call summarize_article on the one shared client *)

\* get_gemini_client() hands every caller the same GeminiClient, so the threads
\* share last_request_time; each has its own frame of summarize_article and
\* _apply_rate_limit.  There is no lock in client.py.
Threads == {1, 2}

ThreadsIdle ==
    /\ th_pc = [t \in Threads |-> "idle"]
    /\ th_read = [t \in Threads |-> 0]
    /\ th_clock = [t \in Threads |-> 0]
    /\ th_wake = [t \in Threads |-> 0]
    /\ th_issued = [t \in Threads |-> 0 - 1]

\* what a thread step leaves alone besides the shared state it names
threadFrame == <<preVars, postVars, now, gpc, g_method, g_title, g_content, g_author,
                 g_wake, g_outcome, g_error, g_ret, g_count, scrapeVars, batchVars>>

InFlight == {t \in Threads : th_pc[t] # "idle"}

wake_time_full_delay(current_time, last) == current_time + DelayTicks

\* when time.sleep(sleep_time) returns: current_time + sleep_time, with
\* sleep_time = rate_limit_delay - (current_time - last_request_time)
wake_time(current_time, last) == current_time + (DelayTicks - (current_time - last))

\* thread t calls summarize_article with a non-empty content
ThreadEnter(t) ==
    /\ th_pc[t] = "idle"
    /\ Len(calls) + Cardinality(InFlight) < MaxCalls
    /\ th_pc' = [th_pc EXCEPT ![t] = "entered"]
    /\ UNCHANGED <<th_read, th_clock, th_wake, th_issued, last_request_time, calls,
                   threadFrame>>

\* _apply_rate_limit, up to the call of time.sleep
ThreadRead(t) ==
    /\ th_pc[t] = "entered"
    /\ th_clock' = [th_clock EXCEPT ![t] = now]
    /\ th_read' = [th_read EXCEPT ![t] = last_request_time]
    /\ IF now - last_request_time < DelayTicks
       THEN /\ th_pc' = [th_pc EXCEPT ![t] = "sleeping"]
            /\ th_wake' = [th_wake EXCEPT ![t] = wake_time(now, last_request_time)]
       ELSE /\ th_pc' = [th_pc EXCEPT ![t] = "stamp"]
            /\ th_wake' = [th_wake EXCEPT ![t] = now]
    /\ UNCHANGED <<th_issued, last_request_time, calls, threadFrame>>

\* time.sleep(sleep_time) returns in thread t
ThreadWake(t) ==
    /\ th_pc[t] = "sleeping"
    /\ now >= th_wake[t]
    /\ th_pc' = [th_pc EXCEPT ![t] = "stamp"]
    /\ UNCHANGED <<th_read, th_clock, th_wake, th_issued, last_request_time, calls,
                   threadFrame>>

\* self.last_request_time = time.time()
ThreadStamp(t) ==
    /\ th_pc[t] = "stamp"
    /\ last_request_time' = now
    /\ th_pc' = [th_pc EXCEPT ![t] = "prompt"]
    /\ UNCHANGED <<th_read, th_clock, th_wake, th_issued, calls, threadFrame>>

\* self.model.generate_content(prompt) is issued by thread t
ThreadGenerate(t) ==
    /\ th_pc[t] = "prompt"
    /\ calls' = Append(calls, now)
    /\ th_issued' = [th_issued EXCEPT ![t] = now]
    /\ th_pc' = [th_pc EXCEPT ![t] = "waiting"]
    /\ UNCHANGED <<th_read, th_clock, th_wake, last_request_time, threadFrame>>

\* the external call of thread t ends (response, empty response or exception)
\* and summarize_article returns
ThreadReturn(t) ==
    /\ th_pc[t] = "waiting"
    /\ th_pc' = [th_pc EXCEPT ![t] = "idle"]
    /\ UNCHANGED <<th_read, th_clock, th_wake, th_issued, last_request_time, calls,
                   threadFrame>>

ThreadStep(t) ==
    \/ ThreadEnter(t)
    \/ ThreadRead(t)
    \/ ThreadWake(t)
    \/ ThreadStamp(t)
    \/ ThreadGenerate(t)
    \/ ThreadReturn(t)


----------------------------------------------------------------------------
(* A caller that makes summarize calls one after another on one client *)

GatewayContents ==
    { None, <<>>, <<"\n"," ">>, <<" ","x"," ">> }

GatewayTitles == { <<"T">> }

GatewayAuthors == { None, <<"A","n","n">> }

CallSummarizeText ==
    /\ \E text \in GatewayContents : Invoke("summarize_text", <<>>, text, None)
    /\ UNCHANGED <<preVars, postVars, threadVars, now, scrapeVars, batchVars>>

CallSummarizeArticle ==
    /\ \E title \in GatewayTitles, content \in GatewayContents,
          author \in GatewayAuthors :
          Invoke("summarize_article", title, content, author)
    /\ UNCHANGED <<preVars, postVars, threadVars, now, scrapeVars, batchVars>>

\* the caller takes the returned string
TakeResult ==
    /\ gpc = "returned"
    /\ LeaveCall
    /\ UNCHANGED <<preVars, postVars, threadVars, now, scrapeVars, batchVars>>

GatewayRun ==
    /\ GatewayStep
    /\ UNCHANGED <<preVars, postVars, threadVars, now, scrapeVars, batchVars>>

\* time.time() is seconds since the epoch: far more than the delay
ClockInit == now = DelayTicks

InitGateway == PreIdle /\ PostIdle /\ ThreadsIdle /\ ClockInit /\ GatewayInit /\ ScrapeIdle /\ BatchIdle

NextGateway ==
    \/ CallSummarizeText
    \/ CallSummarizeArticle
    \/ GatewayRun
    \/ TakeResult
    \/ Tick

SpecGateway == InitGateway /\ [][NextGateway]_vars

\* threads calling summarize_article on the shared client
InitThreads == PreIdle /\ PostIdle /\ ThreadsIdle /\ ClockInit /\ GatewayInit /\ ScrapeIdle /\ BatchIdle

NextThreads ==
    \/ \E t \in Threads : ThreadStep(t)
    \/ Tick

SpecThreads == InitThreads /\ [][NextThreads]_vars

----------------------------------------------------------------------------
(* preprocess_text on its own *)

InitPre == PreInit /\ PostIdle /\ ThreadsIdle /\ ClockInit /\ GatewayInit /\ ScrapeIdle /\ BatchIdle

NextPre == Preprocess /\ UNCHANGED <<postVars, threadVars, now, gatewayVars, scrapeVars, batchVars>>

SpecPre == InitPre /\ [][NextPre]_vars


----------------------------------------------------------------------------
(* the functions of postprocessor.py on their own *)

InitPost == PreIdle /\ PostInit /\ ThreadsIdle /\ ClockInit /\ GatewayInit /\ ScrapeIdle /\ BatchIdle

NextPost ==
    /\ \/ PostprocessSummary
       \/ SplitSentences
       \/ LimitLength
    /\ UNCHANGED <<preVars, threadVars, now, gatewayVars, scrapeVars, batchVars>>

SpecPost == InitPost /\ [][NextPost]_vars

----------------------------------------------------------------------------
(* scrape_articles on its own *)

InitScrape == PreIdle /\ PostIdle /\ ThreadsIdle /\ ClockInit /\ GatewayInit /\ ScrapeInit /\ BatchIdle

NextScrape == Scrape /\ UNCHANGED <<preVars, postVars, threadVars, now, gatewayVars, batchVars>>

SpecScrape == InitScrape /\ [][NextScrape]_vars

----------------------------------------------------------------------------
(* The pipeline: one request to scrape_and_summarize *)

Init == PreIdle /\ PostIdle /\ ThreadsIdle /\ ClockInit /\ GatewayInit /\ BatchInit

Next ==
    \/ ScrapeStage
    \/ GetClient
    \/ PreprocessStage
    \/ SummarizeStage
    \/ SummarizeRun
    \/ SummarizeReturn
    \/ PostprocessStage
    \/ StageRaises
    \/ PersistStage
    \/ CommitRaises
    \/ CommitRefused
    \/ Tick

Spec == Init /\ [][Next]_vars

----------------------------------------------------------------------------
(* Properties of the summarization gateway *)

\* C1: any two consecutive invocations of the external service are at least
\* rate_limit_delay apart, measured where generate_content is issued.
C1_CallsSeparated ==
    \A i \in 1..(Len(calls) - 1) : calls[i + 1] - calls[i] >= DelayTicks

\* C2: a summarize call whose body is None, empty or whitespace-only returns
\* exactly "No content to summarize." in its first step: the external service
\* is not invoked and last_request_time is not touched.
C2_EmptyBodySentinel ==
    [][ ( /\ gpc = "entered"
          /\ (g_content = None \/ Strip(g_content) = <<>>)
          /\ gpc' # "entered" )
        => ( /\ gpc' = "returned"
             /\ g_ret' = NO_CONTENT
             /\ calls' = calls
             /\ last_request_time' = last_request_time ) ]_vars

\* a whitespace-only body was answered with the sentinel, on a client that had
\* already issued a call before
C2_Witness ==
    /\ gpc = "returned"
    /\ g_content = <<"\n", " ">>
    /\ g_ret = NO_CONTENT
    /\ Len(calls) >= 1
    /\ last_request_time > 0

\* C3 (as amended): summarize always returns a string; when the external call
\* raises it is the method's error prefix followed by str(e); when the
\* response is empty it is the fixed string "Unable to generate [article]
\* summary.", which neither carries the error prefix nor any detail.
C3_FailureStrings ==
    gpc = "returned" =>
        /\ g_outcome = "raised" =>
              /\ g_error \in ErrorDetails
              /\ g_ret = (IF g_method = "summarize_text" THEN ERROR_TEXT
                          ELSE ERROR_ARTICLE) \o g_error
        /\ g_outcome = "empty" =>
              /\ g_ret = (IF g_method = "summarize_text" THEN UNABLE_TEXT
                          ELSE UNABLE_ARTICLE)
              /\ ~StartsWith(g_ret, ERROR_TEXT)
              /\ ~StartsWith(g_ret, ERROR_ARTICLE)

\* summarize_article returned after the external call raised
C3_Witness ==
    /\ gpc = "returned"
    /\ g_method = "summarize_article"
    /\ g_outcome = "raised"
    /\ g_error = <<"t","i","m","e","d"," ","o","u","t">>

\* C3 as stated: after a transport failure and after an empty response alike,
\* the returned string starts with the error prefix and embeds the detail.
C3_ErrorPrefixAlways ==
    (gpc = "returned" /\ g_outcome \in {"raised", "empty"}) =>
        /\ StartsWith(g_ret, IF g_method = "summarize_text" THEN ERROR_TEXT
                             ELSE ERROR_ARTICLE)
        /\ Contains(g_ret, g_error)

----------------------------------------------------------------------------
(* Properties of the content extractor *)

\* C6: for every url, page and integer limit, negative ones included,
\* scrape_articles returns at most max(limit, 0) records.
C6_LimitBoundsOutput ==
    sc_done => Len(sc_result.articles) <= (IF sc_limit > 0 THEN sc_limit ELSE 0)

\* C7: in the quote-layout strategy a container without its text or author
\* sub-element yields no record for that container only; the well-formed
\* containers among the first `limit` still yield theirs, in document order.
C7_MalformedQuoteSkipped ==
    ( /\ sc_done
      /\ Contains(sc_url, QUOTES_HOST)
      /\ sc_page.fetch = "ok" /\ sc_page.parse = "ok"
      /\ sc_limit >= 0 )
    => LET first == SubSeq(sc_page.quotes, 1,
                           IF sc_limit < Len(sc_page.quotes) THEN sc_limit
                           ELSE Len(sc_page.quotes))
           good  == SelectElements(first, LAMBDA q : q.text # None /\ q.author # None)
       IN  sc_result.articles = [i \in DOMAIN good |-> quote_article(sc_url, good[i])]

\* C8: exactly one strategy runs per call, chosen by substring of the url:
\* quote-layout if it contains "quotes.toscrape.com" (even when it also
\* contains "news.ycombinator.com"), else link-aggregator if it contains
\* "news.ycombinator.com", else generic.
C8_DispatchOrder ==
    sc_done =>
        /\ Len(sc_result.ran) = 1
        /\ Contains(sc_url, QUOTES_HOST) => sc_result.ran[1] = "quotes"
        /\ (~Contains(sc_url, QUOTES_HOST) /\ Contains(sc_url, HN_HOST))
              => sc_result.ran[1] = "hacker_news"
        /\ (~Contains(sc_url, QUOTES_HOST) /\ ~Contains(sc_url, HN_HOST))
              => sc_result.ran[1] = "generic"

\* a url naming the link aggregator first and the quotes site second, on a
\* page of quote containers, gave quote records
C8_Witness ==
    /\ sc_done
    /\ StartsWith(sc_url, <<"h","t","t","p",":","/","/">> \o HN_HOST)
    /\ Contains(sc_url, QUOTES_HOST)
    /\ sc_result.ran = <<"quotes">>
    /\ Len(sc_result.articles) = 2
    /\ StartsWith(sc_result.articles[1].title, <<"Q","u","o","t","e"," ","b","y"," ">>)

\* the page has nothing the strategy chosen for the url selects
NoMatchingElements ==
    IF Contains(sc_url, QUOTES_HOST) THEN sc_page.quotes = <<>>
    ELSE IF Contains(sc_url, HN_HOST) THEN sc_page.rows = <<>>
    ELSE \A i \in DOMAIN sc_page.elements :
            LET e == sc_page.elements[i]
            IN  /\ e.tag # "article"
                /\ ~(e.tag = "div" /\ ClassHas(e, <<"p","o","s","t">>))
                /\ ~(e.tag = "div" /\ ClassHas(e, <<"a","r","t","i","c","l","e">>))

\* C9: scrape_articles never raises to its caller; a fetch failure, a parse
\* failure of the page, or a page with no matching element gives [].
C9_NeverRaises ==
    sc_done =>
        /\ ~sc_result.raised
        /\ (sc_page.fetch # "ok" \/ sc_page.parse # "ok" \/ NoMatchingElements)
              => sc_result.articles = <<>>

\* the GET of a quotes url answered with an error status, though the page
\* would have held quote containers
C9_Witness ==
    /\ sc_done
    /\ sc_page.fetch = "http_error"
    /\ Contains(sc_url, QUOTES_HOST)
    /\ Len(sc_page.quotes) >= 2
    /\ sc_limit > 0
    /\ sc_result.articles = <<>>
    /\ ~sc_result.raised

----------------------------------------------------------------------------
(* Properties of the pipeline *)

\* the positions of scraped_articles that no exception interrupted, in order
UnfaultedPositions ==
    SelectElements([i \in DOMAIN scraped_articles |-> i], LAMBDA i : i \notin b_faulted)

\* C4: a failure raised at any stage for one record skips only that record:
\* every other record, those after it included, is processed and stored, and
\* article_ids are the ids of exactly those records, in input order, with
\* articles_processed their count.
C4_FailureSkipsOnlyThatRecord ==
    (bpc = "done" /\ b_response.status = 200) =>
        LET good == UnfaultedPositions
        IN  /\ Len(db_rows) = Len(good)
            /\ \A k \in DOMAIN good :
                  /\ k \in DOMAIN db_rows
                  /\ db_rows[k].title = scraped_articles[good[k]].title
                  /\ db_rows[k].content = scraped_articles[good[k]].content
            /\ b_response.article_ids = [k \in DOMAIN db_rows |-> db_rows[k].id]
            /\ b_response.articles_processed = Len(good)

\* C5 (as amended): the external service is invoked only for a non-empty
\* body; records are not filtered before the gateway: every record of the
\* batch is handed to summarize_article with its normalized body, and for an
\* empty one summarize_article answers "No content to summarize." without
\* invoking the service. The title handed over may be empty.
C5_ServiceCalledOnlyWithBody ==
    /\ gpc \in {"sleeping", "stamp", "prompt", "waiting"}
          => (g_content # None /\ Strip(g_content) # <<>>)
    /\ (gpc = "returned" /\ (g_content = None \/ Strip(g_content) = <<>>))
          => (g_ret = NO_CONTENT /\ g_outcome = "none")
    /\ bpc = "summarizing"
          => /\ g_title = scraped_articles[b_idx].title
             /\ g_content = preprocess_text(scraped_articles[b_idx].content, FALSE)

\* a record whose extracted body is not empty but whose normalized body is
\* reached summarize_article and was answered with the sentinel
C5_Witness ==
    /\ bpc = "summarizing"
    /\ gpc = "returned"
    /\ scraped_articles[b_idx].content # <<>>
    /\ g_content = <<>>
    /\ g_ret = NO_CONTENT
    /\ calls = <<>>

\* C5 as stated: every record handed to summarize has a non-empty title and a
\* non-empty body.
C5_GatewayGetsNonEmpty ==
    (bpc = "summarizing" /\ gpc = "entered") =>
        /\ g_title # <<>>
        /\ g_content # None
        /\ Strip(g_content) # <<>>

----------------------------------------------------------------------------
(* Properties of the text normalizer *)

\* a match of <[^>]+> somewhere in s
HasTag(s) ==
    \E i, j \in DOMAIN s :
        /\ s[i] = "<"
        /\ s[j] = ">"
        /\ j > i + 1
        /\ \A k \in (i + 1)..(j - 1) : s[k] # ">"

----------------------------------------------------------------------------
(* Properties of the summary post-processor *)

\* the sentences of a raw summary, as postprocess_summary segments them
Segmented(raw_summary) ==
    IF Falsy(raw_summary) THEN <<>> ELSE split_sentences(clean_markup(raw_summary))

\* C11: for every raw summary and every max_sentences >= 0 the result of
\* postprocess_summary holds no "**", is the first min(n, max_sentences) of
\* the n sentences of the segmented input, in order, joined by single spaces
\* (with a "." appended if it does not end with one), itself segments into at
\* most max_sentences sentences, and is empty or ends with ".".
C11_PostprocessShape ==
    (po_fn = "postprocess_summary" /\ po_done) =>
        LET sentences == Segmented(po_text)
            k == IF Len(sentences) < po_max THEN Len(sentences) ELSE po_max
            joined == JoinSpace(SubSeq(sentences, 1, k))
        IN  /\ ~Contains(po_out, <<"*", "*">>)
            /\ po_out \in {joined, joined \o <<".">>}
            /\ Len(split_sentences(po_out)) <= po_max
            /\ po_out = <<>> \/ po_out[Len(po_out)] = "."

\* a summary with bold markup and more sentences than max_sentences was cut
\* to max_sentences >= 1 sentences
C11_Witness ==
    /\ po_fn = "postprocess_summary"
    /\ po_done
    /\ po_max >= 1
    /\ Contains(po_text, <<"*", "*">>)
    /\ Len(Segmented(po_text)) > po_max
    /\ Len(split_sentences(po_out)) = po_max

\* 0-based index of the rightmost ".", "!" or "?" among the first max_chars
\* characters of text, -1 if there is none
RightmostPunctuation(text, max_chars) ==
    LET at == {i \in 0..(max_chars - 1) : text[i + 1] \in {".", "!", "?"}}
    IN  IF at = {} THEN 0 - 1 ELSE CHOOSE i \in at : \A j \in at : j <= i

\* what C12 says limit_length(text, max_chars) returns
LimitLengthAsStated(text, max_chars) ==
    IF Len(text) <= max_chars THEN text
    ELSE LET last == RightmostPunctuation(text, max_chars)
         IN  IF 10 * last > 7 * max_chars
             THEN SubSeq(text, 1, last + 1)
             ELSE SubSeq(text, 1, max_chars) \o <<".", ".", ".">>

\* C12: for every text and every max_chars >= 0, limit_length returns the
\* text unchanged when it has at most max_chars characters; otherwise the
\* result has at most max_chars + 3 characters and is the prefix ending at
\* the rightmost ".", "!" or "?" of the first max_chars characters if that
\* lies at an index strictly greater than 70% of max_chars, else the first
\* max_chars characters followed by "...".
C12_LimitLengthCut ==
    (po_fn = "limit_length" /\ po_done /\ po_max >= 0) =>
        /\ po_out = LimitLengthAsStated(po_text, po_max)
        /\ Len(po_text) > po_max => Len(po_out) <= po_max + 3

\* the places where a text may be cut: <<i, j>> such that s[i-1] is ".", "!"
\* or "?", s[i..j-1] is whitespace (at least one character) and s[j] is an
\* uppercase letter
Cuts(s) ==
    {c \in (2..Len(s)) \X (2..Len(s)) :
        /\ c[1] < c[2]
        /\ s[c[1] - 1] \in {".", "!", "?"}
        /\ \A k \in c[1]..(c[2] - 1) : IsSpace(s[k])
        /\ s[c[2]] \in UpperChars}

\* where the fragments between the cuts start, and where each ends
FragmentStarts(s) == {1} \cup {c[2] : c \in Cuts(s)}

FragmentEnd(s, a) ==
    LET later == {c[1] : c \in {d \in Cuts(s) : d[1] > a}}
    IN  IF later = {} THEN Len(s)
        ELSE (CHOOSE i \in later : \A j \in later : i <= j) - 1

Fragment(s, a) == Strip(SubSeq(s, a, FragmentEnd(s, a)))

\* C13: split_sentences cuts a text only where ".", "!" or "?" is followed
\* by whitespace and then an uppercase letter, and returns, in their order in
\* the text, exactly the trimmed fragments of 6 characters or more.
C13_SplitSentences ==
    (po_fn = "split_sentences" /\ po_done) =>
        LET kept == {a \in FragmentStarts(po_text) : Len(Fragment(po_text, a)) >= 6}
        IN  /\ Len(po_out) = Cardinality(kept)
            /\ \A a \in kept :
                   po_out[Cardinality({b \in kept : b <= a})] = Fragment(po_text, a)
            /\ \A k \in 1..Len(po_out) : Len(po_out[k]) >= 6

\* a text with a cut, a fragment of exactly 6 characters that was kept, one
\* of 5 that was dropped
C13_Witness ==
    /\ po_fn = "split_sentences"
    /\ po_done
    /\ Cuts(po_text) # {}
    /\ \E k \in 1..Len(po_out) : Len(po_out[k]) = 6
    /\ \E a \in FragmentStarts(po_text) : Len(Fragment(po_text, a)) = 5

----------------------------------------------------------------------------
(* Properties of the rate limiter *)

\* C14: on every summarize call that reaches the external service, the shared
\* last-call timestamp is updated once the call attempt has been made,
\* whether it gave a text, an empty response or an exception: when the
\* attempt ends, last_request_time becomes the current time.
C14_StampAfterAttempt ==
    [][(gpc = "waiting" /\ gpc' = "returned") => last_request_time' = now]_vars

\* C15: without mutual exclusion, threads that read the same last-call
\* timestamp while it is less than the minimum interval old compute sleep
\* windows that overlap: each sleeps until that timestamp plus the interval,
\* whatever the other thread does in between.
C15_OverlappingWindows ==
    \A t, u \in Threads :
        (t # u /\ th_pc[t] = "sleeping" /\ th_pc[u] = "sleeping"
               /\ th_read[t] = th_read[u]) =>
            /\ th_wake[t] = th_wake[u]
            /\ th_wake[t] = th_read[t] + DelayTicks
            /\ th_clock[t] <= th_wake[u]
            /\ th_clock[u] <= th_wake[t]

\* two threads read the same timestamp before either wrote it, slept, and
\* have their external calls outstanding at once, issued less than the
\* minimum interval apart
C15_Witness ==
    \E t, u \in Threads :
        /\ t # u
        /\ th_pc[t] = "waiting"
        /\ th_pc[u] = "waiting"
        /\ th_read[t] = th_read[u]
        /\ th_wake[t] > th_clock[t]
        /\ th_wake[u] > th_clock[u]
        /\ last_request_time > th_read[t]
        /\ th_issued[t] - th_issued[u] < DelayTicks
        /\ th_issued[u] - th_issued[t] < DelayTicks

----------------------------------------------------------------------------
(* Properties of the batch loop *)

\* the strings summarize_article returns when the external service fails,
\* as postprocess_summary leaves them
FailedSummaries ==
    {postprocess_summary(error_summary("summarize_article", e), default_max_sentences) :
        e \in ErrorDetails}
    \cup {postprocess_summary(UNABLE_ARTICLE, default_max_sentences)}

\* C16: there is no retry.  In a batch run summarize_article is entered at
\* most once per record and the external service is invoked at most once per
\* entry: the counts never exceed the number of records reached, a record
\* enters the summarize stage only from its normalize stage, a new pass through
\* the loop is always for the next record, and a call is issued only from the
\* prompt of the call in progress.
C16_NoRetry ==
    /\ [](Len(calls) <= g_count /\ g_count <= b_idx)
    /\ [][/\ g_count' # g_count =>
                g_count' = g_count + 1 /\ bpc = "summarize" /\ bpc' = "summarizing"
          /\ calls' # calls =>
                /\ Len(calls') = Len(calls) + 1
                /\ bpc = "summarizing" /\ gpc = "prompt" /\ gpc' = "waiting"
          /\ (gpc' = "prompt" /\ gpc # "prompt") => gpc = "stamp"
          /\ (gpc' = "stamp" /\ gpc # "stamp") => gpc \in {"entered", "sleeping"}
          /\ (bpc' = "summarize" /\ bpc # "summarize") =>
                bpc = "preprocess" /\ b_idx' = b_idx
          /\ (bpc' = "preprocess" /\ bpc # "preprocess") => b_idx' = b_idx + 1
          /\ bpc = "done" => bpc' = "done"]_vars

\* a batch of two records ended, one external call per record, and one of
\* the calls had failed
C16_Witness ==
    /\ bpc = "done"
    /\ Len(scraped_articles) = 2
    /\ Len(calls) = 2
    /\ g_count = 2
    /\ \E i \in DOMAIN db_rows : db_rows[i].summary \in FailedSummaries

StageRank ==
    [start |-> 0, get_client |-> 1, preprocess |-> 2, summarize |-> 3,
     summarizing |-> 4, postprocess |-> 5, persist |-> 6, done |-> 7]

\* C17: records are processed one at a time in extraction order and each
\* record's stages run in the order normalize, summarize, post-process,
\* persist, each on the result of the one before: within a record every
\* stage follows directly the one before it, and the loop moves to record
\* i + 1 only from record i, once record i has been persisted or skipped.
C17_StagesInOrder ==
    /\ [](/\ bpc \in {"summarize", "summarizing"} =>
                preprocessed_content = preprocess_text(article_data.content, FALSE)
          /\ bpc = "persist" =>
                final_summary = postprocess_summary(summary, default_max_sentences)
          /\ bpc \in {"preprocess", "summarize", "summarizing", "postprocess", "persist"} =>
                /\ b_idx \in 1..Len(scraped_articles)
                /\ \A i \in 1..(b_idx - 1) :
                       i \in b_skipped \/ \E r \in DOMAIN db_rows :
                                              db_rows[r].content = scraped_articles[i].content)
    /\ [][/\ (b_idx' = b_idx /\ bpc' # bpc /\ bpc' # "done") =>
                StageRank[bpc'] = StageRank[bpc] + 1
          /\ b_idx' # b_idx =>
                /\ b_idx' = b_idx + 1
                /\ bpc' = "preprocess"
                /\ \/ b_idx = 0 /\ bpc = "get_client"
                   \/ b_idx \in b_skipped'
                   \/ bpc = "persist" /\ Len(db_rows') = Len(db_rows) + 1
          /\ (bpc' = "done" /\ bpc \notin {"done", "start", "get_client"}) =>
                /\ b_idx = Len(scraped_articles)
                /\ \/ b_idx \in b_skipped'
                   \/ bpc = "persist" /\ Len(db_rows') = Len(db_rows) + 1]_vars

\* both records of a batch went through every stage and were stored in order
C17_Witness ==
    /\ bpc = "done"
    /\ Len(scraped_articles) = 2
    /\ Len(db_rows) = 2
    /\ b_skipped = {}
    /\ \A i \in 1..2 : db_rows[i].content = scraped_articles[i].content

\* C18: a failure of the external service (exception, empty response) or an
\* empty input is not a failure of the record.  Whatever summarize_article
\* returns becomes the record's summary and goes on to the post-process stage
\* without the record being skipped; a stored record carries the
\* post-processed summary and its id is collected; the response counts every
\* stored record.
C18_FailedSummaryStored ==
    /\ [][/\ (bpc = "summarizing" /\ bpc' # "summarizing") =>
                /\ bpc' = "postprocess"
                /\ summary' = g_ret
                /\ b_idx' = b_idx
                /\ b_skipped' = b_skipped
                /\ b_faulted' = b_faulted
          /\ Len(db_rows') # Len(db_rows) =>
                /\ db_rows' = Append(db_rows, Article(Len(db_rows) + 1, article_data,
                                 postprocess_summary(summary, default_max_sentences)))
                /\ processed_article_ids' = Append(processed_article_ids, Len(db_rows) + 1)
                /\ b_idx \notin b_skipped']_vars
    /\ []((bpc = "done" /\ b_response.status = 200) =>
             /\ b_response.articles_processed = Len(db_rows)
             /\ b_response.article_ids = [i \in 1..Len(db_rows) |-> db_rows[i].id])

\* a batch ended with a record stored under the empty-input sentinel and
\* another stored under a failure string, both counted in the response
C18_Witness ==
    /\ bpc = "done"
    /\ b_response.status = 200
    /\ b_response.articles_processed = 2
    /\ \E i, j \in DOMAIN db_rows :
          /\ db_rows[i].summary = postprocess_summary(NO_CONTENT, default_max_sentences)
          /\ db_rows[j].summary \in FailedSummaries
          /\ db_rows[i].id \in {b_response.article_ids[k] : k \in 1..2}
          /\ db_rows[j].id \in {b_response.article_ids[k] : k \in 1..2}

----------------------------------------------------------------------------
(* Properties of the generic strategy *)

\* the positions in the page of the three kinds of candidate
ArticleTags(elements) == {i \in DOMAIN elements : elements[i].tag = "article"}

DivsOfClass(elements, word) ==
    {i \in DOMAIN elements :
        /\ elements[i].tag = "div"
        /\ \E c \in DOMAIN elements[i].class :
              Contains(Lower(elements[i].class[c]), word)}

\* the k-th smallest member of a set of positions
Nth(S, k) == CHOOSE i \in S : Cardinality({j \in S : j <= i}) = k

\* the position in the page of candidate number k (1-based)
CandidateAt(elements, k) ==
    LET a == ArticleTags(elements)
        b == DivsOfClass(elements, <<"p","o","s","t">>)
        c == DivsOfClass(elements, <<"a","r","t","i","c","l","e">>)
    IN  IF k <= Cardinality(a) THEN Nth(a, k)
        ELSE IF k <= Cardinality(a) + Cardinality(b) THEN Nth(b, k - Cardinality(a))
        ELSE Nth(c, k - Cardinality(a) - Cardinality(b))

CandidateCount(elements) ==
    Cardinality(ArticleTags(elements))
    + Cardinality(DivsOfClass(elements, <<"p","o","s","t">>))
    + Cardinality(DivsOfClass(elements, <<"a","r","t","i","c","l","e">>))

\* C19: in the generic strategy the candidates are all article elements,
\* then all divs whose class contains "post", then all divs whose class
\* contains "article" (an element once per list it is in), cut to the first
\* `limit` (limit >= 0); one record is emitted per candidate, in that order,
\* and a candidate without h1/h2/h3/title is titled "Article k", k its
\* 1-based position among the candidates kept.
C19_GenericCandidates ==
    (sc_done /\ sc_result.ran = <<"generic">> /\ PageLoads(sc_page) /\ sc_limit >= 0) =>
        LET elements == sc_page.elements
            n == CandidateCount(elements)
            articles == sc_result.articles
        IN  /\ Len(articles) = (IF sc_limit < n THEN sc_limit ELSE n)
            /\ \A k \in DOMAIN articles :
                  LET e == elements[CandidateAt(elements, k)]
                  IN  /\ articles[k] = generic_article(sc_url, k - 1, e)
                      /\ (e.h1 = None /\ e.h2 = None /\ e.h3 = None /\ e.title = None) =>
                            articles[k].title
                              = <<"A","r","t","i","c","l","e"," ">> \o <<ToString(k)>>

\* a page whose candidates number more than limit = 2, one element being in
\* two of the lists, and whose second candidate has no heading
C19_Witness ==
    /\ sc_done
    /\ sc_result.ran = <<"generic">>
    /\ sc_limit = 2
    /\ CandidateCount(sc_page.elements) > Len(sc_page.elements)
    /\ Len(sc_result.articles) = 2
    /\ sc_result.articles[2].title = <<"A","r","t","i","c","l","e"," ","2">>

----------------------------------------------------------------------------
(* Properties of the list markers *)

\* where the lines of a text start
LineStarts(text) == {1} \cup {i + 1 : i \in {j \in 1..(Len(text) - 1) : text[j] = "\n"}}

\* a bullet ("-", U+2022, "*") or a number and a period, then a space, at
\* position a of text
MarkerAt(text, a) ==
    \/ /\ a + 1 <= Len(text)
       /\ text[a] \in {"-", BULLET, "*"}
       /\ text[a + 1] = " "
    \/ \E j \in (a + 1)..(Len(text) - 1) :
          /\ \A d \in a..(j - 1) : text[d] \in Digits
          /\ text[j] = "."
          /\ text[j + 1] = " "

\* every line of the text starts with a list marker
IsMarkedList(text) ==
    /\ text # None
    /\ text # <<>>
    /\ \A a \in LineStarts(text) : MarkerAt(text, a)

\* C20: postprocess_summary removes the bullet or numeric list marker at the
\* start of every line: when every line of the raw summary starts with a
\* marker, no marker stands at the start of the output or after a space in it.
C20_LineMarkersRemoved ==
    (po_fn = "postprocess_summary" /\ po_done /\ IsMarkedList(po_text)) =>
        \A a \in DOMAIN po_out :
            (a = 1 \/ po_out[a - 1] = " ") => ~MarkerAt(po_out, a)

----------------------------------------------------------------------------
(* Properties of a request whose extraction finds nothing *)

\* C21: when extraction yields an empty sequence, scrape_and_summarize ends
\* with the not-found outcome (404) and has no other effect: the step that
\* leaves the scrape stage with an empty list goes straight to the end,
\* answers 404 with nothing processed, and leaves the gateway client
\* unobtained, the external service uncalled, the rate limiter's timestamp
\* and the store as they were; nothing changes them afterwards, and 404 is
\* answered for no other reason.
C21_EmptyExtractionFrame ==
    /\ [][(bpc = "start" /\ bpc' # "start" /\ sc_result'.articles = <<>>) =>
              /\ bpc' = "done"
              /\ b_response' = [status |-> 404, articles_processed |-> 0,
                                article_ids |-> <<>>]
              /\ client_created' = client_created
              /\ last_request_time' = last_request_time
              /\ calls' = calls
              /\ g_count' = g_count
              /\ gpc' = gpc
              /\ db_rows' = db_rows
              /\ processed_article_ids' = processed_article_ids
              /\ b_idx' = b_idx]_vars
    /\ [][(bpc = "done" /\ b_response.status = 404) =>
              UNCHANGED <<gatewayVars, scrapeVars, batchVars>>]_vars
    /\ []((bpc = "done" /\ b_response.status = 404) =>
              /\ sc_done
              /\ sc_result.articles = <<>>
              /\ ~client_created
              /\ gpc = "idle"
              /\ g_count = 0
              /\ calls = <<>>
              /\ last_request_time = 0
              /\ db_rows = <<>>
              /\ processed_article_ids = <<>>
              /\ b_idx = 0)
    /\ []((sc_done /\ sc_result.articles = <<>>) =>
              (bpc = "done" /\ b_response.status = 404))

\* the page loaded and the API key is set, but the page holds nothing the
\* strategy selects; the request was answered 404 and time has gone on since
C21_Witness ==
    /\ bpc = "done"
    /\ b_response.status = 404
    /\ PageLoads(sc_page)
    /\ NoMatchingElements
    /\ sc_limit > 0
    /\ api_key
    /\ now > DelayTicks
    /\ ~client_created
    /\ calls = <<>>
    /\ db_rows = <<>>

========================================================================
